---- MODULE Spec2Model ----
(***************************************************************************)
(* Plan-graph model of the SQL visualizer client.                          *)
(*                                                                         *)
(*  - graph ingestion: convertNetworkXToTree (utils/convertToTree.ts) and  *)
(*    convertAQPToTree, modelled on the node map the code builds (a JS Map *)
(*    of objects that reference each other) and unfolded into a nested     *)
(*    value where the panel clones or renders it;                          *)
(*  - edit tracking and plan reconciliation: the state and handlers of     *)
(*    QEPPanel (components/QEPPanel.tsx, first component of the file);     *)
(*  - the page that owns qepData, query and selectedDatabase               *)
(*    (app/page.tsx, last component of the file).                          *)
(*                                                                         *)
(* Node ids are the integers 1..MaxNodes (the payload's "1", "2", ...).    *)
(* The identity key the converter reads (`_id` in convertNetworkXToTree,   *)
(* `id` in convertAQPToTree) is the field `id` of a payload record here.   *)
(***************************************************************************)
EXTENDS Integers, Sequences, FiniteSets, TLC

\* ---------------------------------------------------------------- bounds
MaxNodes == 3
MaxEdges == 2
MaxPending == 2
MaxModifyRequests == 2
MaxChoices == 1

\* ------------------------------------------------------------ JS values
Undefined == "undefined"
Null == [null |-> TRUE]
\* undefined where a node (a reference into the node map) is expected
NoId == 0

Ids == 1..MaxNodes

\* ------------------------------------------------- generic sequence helpers
RECURSIVE SeqsUpTo(_, _)
SeqsUpTo(S, n) ==
  IF n = 0 THEN {<<>>}
  ELSE LET shorter == SeqsUpTo(S, n - 1)
       IN shorter \cup {Append(s, x) : s \in {t \in shorter : Len(t) = n - 1}, x \in S}

Range(s) == {s[i] : i \in DOMAIN s}

IsInjective(s) == \A i, j \in DOMAIN s : s[i] = s[j] => i = j

\* ------------------------------------------------------- graph payloads
\* A node record of the payload: identity key, root flag, operator type,
\* join_or_scan role (Undefined when the key is absent) and position tag.
\* The drafts of the payload spell the root flag isRoot or is_root; a record
\* carries it under one of the two keys (FALSE for the key it lacks).
NodeRecord(i, root, snake) ==
  [id |-> i, isRoot |-> root /\ ~snake, is_root |-> root /\ snake,
   type |-> "Seq Scan", join_or_scan |-> "Scan",
   position |-> Undefined, cost |-> 10 * i]

\* ------------------------------------------------------------ node map
\* A JS Map keeps its keys in insertion order; set() on a present key
\* replaces the value and keeps the key's place.
EmptyMap == [order |-> <<>>, node |-> <<>>]

MapHas(m, k) == k \in Range(m.order)

MapSet(m, k, v) ==
  IF MapHas(m, k)
  THEN [m EXCEPT !.node = [x \in DOMAIN m.node |-> IF x = k THEN v ELSE m.node[x]]]
  ELSE [order |-> Append(m.order, k),
        node |-> [x \in (DOMAIN m.node) \cup {k} |-> IF x = k THEN v ELSE m.node[x]]]

\* nodeMap.values().next().value
MapFirstValue(m) == IF Len(m.order) = 0 THEN NoId ELSE m.order[1]

\* convertNetworkXToTree, step 1: every attribute but id/is_root/tables/children
\* is passed through; the identity key becomes `id`; name exists only once
\* updateTreeData has written it.
NetworkXNode(rec) ==
  [id |-> rec.id, type |-> rec.type, name |-> Undefined,
   join_or_scan |-> rec.join_or_scan, isRoot |-> rec.isRoot,
   position |-> rec.position, cost |-> rec.cost, children |-> <<>>]

\* convertAQPToTree, step 1: join_or_scan and isRoot are defaulted; a cost
\* of 0 stands for the 'N/A' an absent or zero cost is replaced by.
AQPNode(rec) ==
  [id |-> rec.id, type |-> rec.type,
   join_or_scan |-> IF rec.join_or_scan = Undefined THEN "Unknown" ELSE rec.join_or_scan,
   cost |-> rec.cost, isRoot |-> rec.isRoot, children |-> <<>>]

RECURSIVE InitNodes(_, _, _)
InitNodes(nodes, i, m) ==
  IF i > Len(nodes) THEN m
  ELSE InitNodes(nodes, i + 1, MapSet(m, nodes[i].id, NetworkXNode(nodes[i])))

RECURSIVE InitAQPNodes(_, _, _)
InitAQPNodes(nodes, i, m) ==
  IF i > Len(nodes) THEN m
  ELSE InitAQPNodes(nodes, i + 1, MapSet(m, nodes[i].id, AQPNode(nodes[i])))

\* LinkEdges putting each child in front: parent.children.unshift(child)
RECURSIVE LinkEdgesUnshift(_, _, _)
LinkEdgesUnshift(edges, i, m) ==
  IF i > Len(edges) THEN m
  ELSE LET e == edges[i]
       IN IF MapHas(m, e.source) /\ MapHas(m, e.target)
          THEN LinkEdgesUnshift(edges, i + 1,
                 [m EXCEPT !.node[e.source].children = <<e.target>> \o @])
          ELSE LinkEdgesUnshift(edges, i + 1, m)

\* LinkEdges with the push on the wrong end: child.children.push(parent)
RECURSIVE LinkEdgesReversed(_, _, _)
LinkEdgesReversed(edges, i, m) ==
  IF i > Len(edges) THEN m
  ELSE LET e == edges[i]
       IN IF MapHas(m, e.source) /\ MapHas(m, e.target)
          THEN LinkEdgesReversed(edges, i + 1,
                 [m EXCEPT !.node[e.target].children = Append(@, e.source)])
          ELSE LinkEdgesReversed(edges, i + 1, m)

\* Step 2 of both converters: parent.children.push(child) for every edge
\* whose two ends are in the map, in edge-array order. children holds the
\* ids of the referenced node objects.
RECURSIVE LinkEdges(_, _, _)
LinkEdges(edges, i, m) ==
  IF i > Len(edges) THEN m
  ELSE LET e == edges[i]
       IN IF MapHas(m, e.source) /\ MapHas(m, e.target)
          THEN LinkEdges(edges, i + 1,
                 [m EXCEPT !.node[e.source].children = Append(@, e.target)])
          ELSE LinkEdges(edges, i + 1, m)

\* Array.from(nodeMap.values()).find((node) => node.isRoot)
RECURSIVE FindRoot(_, _)
FindRoot(m, i) ==
  IF i > Len(m.order) THEN NoId
  ELSE IF m.node[m.order[i]].isRoot THEN m.order[i]
  ELSE FindRoot(m, i + 1)

\* Step 3 of convertNetworkXToTree: the comparator of node.children.sort.
\* order[undefined] is undefined, the difference is NaN, and sort treats a
\* NaN result as 0 (the two elements keep their relative order).
PositionOrder(p) ==
  CASE p = "l" -> -1 [] p = "c" -> 0 [] p = "r" -> 1 [] p = "s" -> 2 [] OTHER -> 0

PositionKnown(p) == p \in {"l", "c", "r", "s"}

ComparePosition(a, b) ==
  IF PositionKnown(a.position) /\ PositionKnown(b.position)
  THEN PositionOrder(a.position) - PositionOrder(b.position)
  ELSE 0

\* Array.prototype.sort is stable: an element moves left only past
\* elements the comparator puts strictly after it.
RECURSIVE InsertSorted(_, _, _)
InsertSorted(m, sorted, x) ==
  IF Len(sorted) = 0 THEN <<x>>
  ELSE LET last == sorted[Len(sorted)]
       IN IF ComparePosition(m.node[last], m.node[x]) > 0
          THEN Append(InsertSorted(m, SubSeq(sorted, 1, Len(sorted) - 1), x), last)
          ELSE Append(sorted, x)

RECURSIVE SortChildren(_, _, _, _)
SortChildren(m, ch, i, sorted) ==
  IF i > Len(ch) THEN sorted
  ELSE SortChildren(m, ch, i + 1, InsertSorted(m, sorted, ch[i]))

\* Nodes reachable from a set of nodes along children references.
RECURSIVE Reach(_, _, _)
Reach(m, frontier, seen) ==
  IF frontier = {} THEN seen
  ELSE LET next == UNION {Range(m.node[n].children) : n \in frontier}
       IN Reach(m, next \ (seen \cup frontier), seen \cup frontier)

Descendants(m, n) == Reach(m, Range(m.node[n].children), {})

HasCycleFrom(m, root) == \E n \in Reach(m, {root}, {}) : n \in Descendants(m, n)

\* sortNodesByPosition(node): sorts node.children in place, then recurses
\* into every child. Only called on a structure without a cycle below node
\* (see convertNetworkXToTree), so the recursion ends.
RECURSIVE sortNodesByPosition(_, _)
RECURSIVE SortEach(_, _, _)
SortEach(m, ch, i) ==
  IF i > Len(ch) THEN m
  ELSE SortEach(sortNodesByPosition(m, ch[i]), ch, i + 1)

sortNodesByPosition(m, n) ==
  LET sorted == SortChildren(m, m.node[n].children, 1, <<>>)
      m1 == [m EXCEPT !.node[n].children = sorted]
  IN SortEach(m1, sorted, 1)

\* Result of a converter: the node it returns (NoId for undefined) and the
\* node map its children references point into; threw when the call ends
\* in an exception instead.
Returned(m, root) == [threw |-> FALSE, root |-> root, nodeMap |-> m]
Threw == [threw |-> TRUE, root |-> NoId, nodeMap |-> EmptyMap]

\* convertNetworkXToTree(networkXData). A cycle below the root makes
\* sortNodesByPosition recurse until the call stack overflows (RangeError).
convertNetworkXToTree(g) ==
  LET m == LinkEdges(g.edges, 1, InitNodes(g.nodes, 1, EmptyMap))
      rootNode == FindRoot(m, 1)
  IN IF rootNode # NoId
     THEN IF HasCycleFrom(m, rootNode) THEN Threw
          ELSE Returned(sortNodesByPosition(m, rootNode), rootNode)
     ELSE Returned(m, MapFirstValue(m))

\* convertAQPToTree(aqpData): rootNode || nodeMap.values().next().value
convertAQPToTree(g) ==
  LET m == LinkEdges(g.edges, 1, InitAQPNodes(g.nodes, 1, EmptyMap))
      rootNode == FindRoot(m, 1)
  IN IF rootNode # NoId THEN Returned(m, rootNode)
     ELSE Returned(m, MapFirstValue(m))

\* convertAQPToTree of components/types.ts, step 1. The identity key is
\* `_id`; every key without a leading underscore is copied over, the root
\* flags among them. Display-only fields (tables, conditions, isLeaf) are
\* left out, as in AQPNode.
TypesNode(rec) ==
  [id |-> rec.id, type |-> rec.type,
   join_or_scan |-> IF rec.join_or_scan = Undefined THEN "Unknown" ELSE rec.join_or_scan,
   cost |-> rec.cost, isRoot |-> rec.isRoot, is_root |-> rec.is_root,
   children |-> <<>>]

RECURSIVE InitTypesNodes(_, _, _)
InitTypesNodes(nodes, i, m) ==
  IF i > Len(nodes) THEN m
  ELSE InitTypesNodes(nodes, i + 1, MapSet(m, nodes[i].id, TypesNode(nodes[i])))

\* Array.from(nodeMap.values()).find((node) => node.is_root)
RECURSIVE FindRootSnake(_, _)
FindRootSnake(m, i) ==
  IF i > Len(m.order) THEN NoId
  ELSE IF m.node[m.order[i]].is_root THEN m.order[i]
  ELSE FindRootSnake(m, i + 1)

\* convertAQPToTree(aqpData) of components/types.ts: return rootNode
convertAQPToTreeTypes(g) ==
  LET m == LinkEdges(g.edges, 1, InitTypesNodes(g.nodes, 1, EmptyMap))
  IN Returned(m, FindRootSnake(m, 1))

\* convertNetworkXToTree of components/convertToTree.ts, step 1; the name
\* is the type followed by the table, which no record here carries
LegacyNode(rec) ==
  [id |-> rec.id, type |-> rec.type, name |-> rec.type, children |-> <<>>,
   isLeaf |-> Undefined]

RECURSIVE InitLegacyNodes(_, _, _)
InitLegacyNodes(nodes, i, m) ==
  IF i > Len(nodes) THEN m
  ELSE InitLegacyNodes(nodes, i + 1, MapSet(m, nodes[i].id, LegacyNode(nodes[i])))

\* convertNetworkXToTree(networkXData) of components/convertToTree.ts:
\* return nodeMap.get('1')
convertNetworkXToTreeLegacy(g) ==
  LET m == LinkEdges(g.edges, 1, InitLegacyNodes(g.nodes, 1, EmptyMap))
  IN Returned(m, IF MapHas(m, 1) THEN 1 ELSE NoId)

\* The object graph below a node written out as a nested value: what
\* JSON.stringify serialises and what the tree renderer walks.
RECURSIVE Unfold(_, _)
Unfold(m, n) ==
  [m.node[n] EXCEPT !.children = [i \in 1..Len(@) |-> Unfold(m, @[i])]]

\* ------------------------------------------- table text and its wrapping
\* A JS string is held as the sequence of its characters and an array as
\* the sequence of its items, each tagged so that Array.isArray can tell
\* them apart; NoTable is the undefined of a record without `table`.
Str(chars) == [str |-> chars]
Arr(items) == [arr |-> items]
NoTable == [absent |-> TRUE]

IsArray(v) == DOMAIN v = {"arr"}

\* undefined and '' are falsy
Truthy(v) == v # NoTable /\ v # Str(<<>>)

\* 'No tables'
NoTablesText == Str(<<"N", "o", " ", "t", "a", "b", "l", "e", "s">>)

\* const maxLineLength = 35
MaxLineLength == 35

\* tableText.match(new RegExp(`.{1,${maxLineLength}}`, 'g')) || []: the
\* text cut into pieces of maxLineLength characters, the last one shorter
RECURSIVE SplitText(_)
SplitText(chars) ==
  IF Len(chars) = 0 THEN <<>>
  ELSE IF Len(chars) <= MaxLineLength THEN <<Str(chars)>>
  ELSE <<Str(SubSeq(chars, 1, MaxLineLength))>>
         \o SplitText(SubSeq(chars, MaxLineLength + 1, Len(chars)))

\* The converter that wraps the table text: the object stored per node
WrappedNode(rec) ==
  LET tableText == IF Truthy(rec.table) THEN rec.table ELSE NoTablesText
  IN [id |-> rec.id, type |-> rec.type, node_type |-> rec.node_type,
      cost |-> rec.cost, table |-> Arr(SplitText(tableText.str)),
      children |-> <<>>]

RECURSIVE InitWrappedNodes(_, _, _)
InitWrappedNodes(nodes, i, m) ==
  IF i > Len(nodes) THEN m
  ELSE InitWrappedNodes(nodes, i + 1, MapSet(m, nodes[i].id, WrappedNode(nodes[i])))

\* convertNetworkXToTree of the draft that wraps table text; it returns
\* nodeMap.get('1')
convertNetworkXToTreeWrapped(g) ==
  LET m == LinkEdges(g.edges, 1, InitWrappedNodes(g.nodes, 1, EmptyMap))
  IN Returned(m, IF MapHas(m, 1) THEN 1 ELSE NoId)

\* generateAQP: Array.isArray(node?.table) ? node.table
\*                                         : [node?.table || 'No tables']
RequestTables(table) ==
  IF IsArray(table) THEN table
  ELSE Arr(<<IF Truthy(table) THEN table ELSE NoTablesText>>)

\* ================================================================ state
VARIABLES
  \* app/page.tsx, HomePage
  selectedDatabase, qepData, query, pageModifiedSQL, notification,
  \* components/QEPPanel.tsx, QEPPanel
  qepTreeData, modifiedTreeData, selectedNode, pendingChanges,
  showErrorNotification, showSuccessNotification,
  modifiedSQL, totalCostOriginalQEP, totalCostAQP, generatedAQPData, apiHints,
  \* requests awaiting their response
  planInFlight, modifyInFlight, modifyCount,
  \* the error the last step signalled to the user ("none" when it
  \* signalled none): which early return or catch block it ended in
  signalled,
  \* the request the last step handed to fetch (NoRequest when it made none)
  sent,
  \* a graph payload and what the two converters return for it
  graph, networkXResult, aqpResult,
  \* what the other converters of the repository return for a payload
  typesResult, legacyResult, wrappedResult,
  \* POST /api/database/select requests awaiting their response
  selectInFlight,
  \* order-change mode: the plan on screen and the nodes selected in it
  orderPlan, selectedNodes,
  \* the query text of the /api/query/plan request whose response is qepData
  planQuery,
  \* the HomePage with a loading modal: <Modal opened={loading}>
  loading,
  \* the database the backend switched to on its last successful
  \* /api/database/select
  backendDatabase

pageVars == <<selectedDatabase, qepData, query, pageModifiedSQL, notification>>
treeVars == <<qepTreeData, modifiedTreeData>>
comparisonVars ==
  <<modifiedSQL, totalCostOriginalQEP, totalCostAQP, generatedAQPData, apiHints>>
noticeVars == <<showErrorNotification, showSuccessNotification>>
netVars == <<planInFlight, modifyInFlight, modifyCount>>
ingestVars ==
  <<graph, networkXResult, aqpResult, typesResult, legacyResult, wrappedResult>>
\* What the steps of the mounted panel and of a query submission leave alone
orderVars == <<orderPlan, selectedNodes>>
otherVars == <<ingestVars, selectInFlight, orderVars, planQuery, loading, backendDatabase>>
vars == <<pageVars, treeVars, selectedNode, pendingChanges, noticeVars,
          comparisonVars, netVars, signalled, sent, otherVars>>

\* ------------------------------------------------------- payload domains
\* useState<number | null>(null) for the two total costs
NullCost == -1
\* useState<string>('') for the modified SQL texts
EmptySQL == 0

Databases == {"TPC-H"}
\* useState<string | null>(null) for the selected database
NoDatabase == "null"

\* Query texts as character sequences
Queries == {<<" ">>, <<"a">>}

RECURSIVE TrimStart(_)
TrimStart(q) ==
  IF Len(q) > 0 /\ q[1] = " " THEN TrimStart(Tail(q)) ELSE q

RECURSIVE TrimEnd(_)
TrimEnd(q) ==
  IF Len(q) > 0 /\ q[Len(q)] = " " THEN TrimEnd(SubSeq(q, 1, Len(q) - 1)) ELSE q

\* String.prototype.trim
Trim(q) == TrimEnd(TrimStart(q))

\* The dropdown options offered for a Scan and for a Join node
ScanTypes == <<"Seq Scan", "Index Scan", "Index Only Scan", "Bitmap Heap Scan", "Tid Scan">>
JoinTypes == <<"Hash Join", "Merge Join", "Nested Loop">>

Min(a, b) == IF a < b THEN a ELSE b

ScanChoices == {ScanTypes[i] : i \in 1..Min(MaxChoices, Len(ScanTypes))}
JoinChoices == {JoinTypes[i] : i \in 1..Min(MaxChoices, Len(JoinTypes))}

\* networkx_object payloads of POST /api/query/plan
PlanA ==
  [nodes |-> << [id |-> 1, isRoot |-> TRUE, type |-> "Nested Loop",
                 join_or_scan |-> "Join", position |-> Undefined, cost |-> 200],
                [id |-> 2, isRoot |-> FALSE, type |-> "Tid Scan",
                 join_or_scan |-> "Scan", position |-> Undefined, cost |-> 100] >>,
   edges |-> << [source |-> 1, target |-> 2] >>]

PlanB ==
  [nodes |-> << [id |-> 1, isRoot |-> TRUE, type |-> "Sort",
                 join_or_scan |-> Undefined, position |-> Undefined, cost |-> 80],
                [id |-> 3, isRoot |-> FALSE, type |-> "Index Scan",
                 join_or_scan |-> "Scan", position |-> Undefined, cost |-> 40] >>,
   edges |-> << [source |-> 1, target |-> 3] >>]

Plans == {PlanA, PlanB}

\* Body of the k-th successful POST /api/query/modify response. Every field
\* carries k, so that two responses never agree on any field.
AQPGraph(k) ==
  [nodes |-> << [id |-> 1, isRoot |-> TRUE, type |-> "Merge Join",
                 join_or_scan |-> "Join", cost |-> 100 + k],
                [id |-> 2, isRoot |-> FALSE, type |-> "Index Scan",
                 join_or_scan |-> "Scan", cost |-> k] >>,
   edges |-> << [source |-> 1, target |-> 2] >>]

ModifyResponse(k) ==
  [modified_sql_query |-> k,
   cost_comparison |-> [original_cost |-> 10 * k, modified_cost |-> 10 * k + 1],
   updated_networkx_object |-> AQPGraph(k),
   hints |-> {<<"hint", k>>}]

\* ------------------------------------------------------- tree operations
\* JSON.parse(JSON.stringify(tree)): a structurally equal copy that shares
\* nothing with the tree; on nested values that is the value itself.
JSONClone(tree) == tree

\* updateTreeData(treeData, nodeId, newType)
RECURSIVE updateTreeData(_, _, _)
updateTreeData(treeData, nodeId, newType) ==
  IF treeData.id = nodeId
  THEN [treeData EXCEPT !.type = newType, !.name = newType]
  ELSE [treeData EXCEPT
          !.children = [i \in 1..Len(@) |-> updateTreeData(@[i], nodeId, newType)]]

\* findNodeById(treeNode, id): first match in depth-first order, or null
RECURSIVE findNodeById(_, _)
RECURSIVE FindInChildren(_, _, _)
FindInChildren(children, i, id) ==
  IF i > Len(children) THEN Null
  ELSE LET result == findNodeById(children[i], id)
       IN IF result # Null THEN result ELSE FindInChildren(children, i + 1, id)

findNodeById(treeNode, id) ==
  IF treeNode.id = id THEN treeNode ELSE FindInChildren(treeNode.children, 1, id)

\* The node objects of a rendered tree
RECURSIVE NodesOf(_)
NodesOf(tree) ==
  {tree} \cup UNION {NodesOf(tree.children[i]) : i \in 1..Len(tree.children)}

\* What a converter's result is to the code that renders or clones it
TreeOf(result) ==
  IF result.threw \/ result.root = NoId THEN Null
  ELSE Unfold(result.nodeMap, result.root)

\* ================================================================= Init
\* useState initial values, then the first run of useEffect([qepData])
PanelInit ==
  /\ qepTreeData = TreeOf(convertNetworkXToTree(qepData))
  /\ modifiedTreeData = JSONClone(TreeOf(convertNetworkXToTree(qepData)))
  /\ selectedNode = Null
  /\ pendingChanges = <<>>
  /\ showErrorNotification = FALSE
  /\ showSuccessNotification = FALSE
  /\ modifiedSQL = EmptySQL
  /\ totalCostOriginalQEP = NullCost
  /\ totalCostAQP = NullCost
  /\ generatedAQPData = Null
  /\ apiHints = {}

\* QEPPanel is mounted by the page once a database is selected and a plan
\* has arrived ({selectedDatabase && qepData ? <QEPPanel/> : ...}); neither
\* is ever reset, so the panel then stays mounted. The page state at that
\* moment is the one handleQuerySubmit leaves on success.
PageInit ==
  /\ selectedDatabase \in Databases
  /\ qepData \in Plans
  /\ query \in {q \in Queries : Trim(q) # <<>>}
  /\ planQuery = query
  /\ pageModifiedSQL = EmptySQL
  /\ notification = [message |-> "Query plan fetched successfully!", show |-> FALSE]

NetInit ==
  /\ planInFlight = {}
  /\ modifyInFlight = {}
  /\ modifyCount = 0
  /\ selectInFlight = {}
  /\ loading = FALSE
  /\ backendDatabase = selectedDatabase

NoGraph == [nodes |-> <<>>, edges |-> <<>>]

\* No converter has been called
NoResults ==
  /\ networkXResult = Null
  /\ aqpResult = Null
  /\ typesResult = Null
  /\ legacyResult = Null
  /\ wrappedResult = Null

\* No fetch call made
NoRequest == [url |-> "none"]

\* Order-change mode not entered
NoOrderPlan == <<>>
OrderIdle ==
  /\ orderPlan = NoOrderPlan
  /\ selectedNodes = <<>>

Init ==
  /\ PageInit
  /\ PanelInit
  /\ NetInit
  /\ signalled = "none"
  /\ sent = NoRequest
  /\ graph = NoGraph
  /\ NoResults
  /\ OrderIdle

\* ========================================================= app/page.tsx
\* {selectedDatabase && qepData ? <QEPPanel .../> : <Box/>}
PanelMounted == selectedDatabase # NoDatabase /\ qepData # Null

\* handleQuerySubmit testing the query text before the selected database
handleQuerySubmitQueryFirst ==
  /\ \E q \in Queries :
       /\ query' = q
       /\ IF Trim(q) = <<>>
          THEN /\ notification' =
                    [message |-> "Please enter a query before submitting.", show |-> TRUE]
               /\ signalled' = "blank_query"
               /\ sent' = NoRequest
               /\ UNCHANGED planInFlight
          ELSE IF selectedDatabase = NoDatabase
          THEN /\ notification' =
                    [message |-> "Please select a database before submitting the query.",
                     show |-> TRUE]
               /\ signalled' = "no_database"
               /\ sent' = NoRequest
               /\ UNCHANGED planInFlight
          ELSE /\ planInFlight' = planInFlight \cup {q}
               /\ signalled' = "none"
               /\ sent' = [url |-> "/api/query/plan", body |-> [query |-> q]]
               /\ UNCHANGED notification
  /\ UNCHANGED <<selectedDatabase, qepData, pageModifiedSQL, treeVars, selectedNode,
                 pendingChanges, noticeVars, comparisonVars, modifyInFlight, modifyCount, otherVars>>

\* handleQuerySubmit(query), up to the fetch
handleQuerySubmit ==
  /\ \E q \in Queries :
       /\ query' = q
       /\ IF selectedDatabase = NoDatabase
          THEN /\ notification' =
                    [message |-> "Please select a database before submitting the query.",
                     show |-> TRUE]
               /\ signalled' = "no_database"
               /\ sent' = NoRequest
               /\ UNCHANGED planInFlight
          ELSE IF Trim(q) = <<>>
          THEN /\ notification' =
                    [message |-> "Please enter a query before submitting.", show |-> TRUE]
               /\ signalled' = "blank_query"
               /\ sent' = NoRequest
               /\ UNCHANGED planInFlight
          ELSE /\ planInFlight' = planInFlight \cup {q}
               /\ signalled' = "none"
               /\ sent' = [url |-> "/api/query/plan", body |-> [query |-> q]]
               /\ UNCHANGED notification
  /\ UNCHANGED <<selectedDatabase, qepData, pageModifiedSQL, treeVars, selectedNode,
                 pendingChanges, noticeVars, comparisonVars, modifyInFlight, modifyCount, otherVars>>

\* handleQuerySubmit after the await: response.ok. setQepData re-renders the
\* page; QEPPanel's useEffect([qepData]) then ingests the new plan.
handleQuerySubmit_ok ==
  /\ \E q \in planInFlight, plan \in Plans :
       /\ planInFlight' = planInFlight \ {q}
       /\ qepData' = plan
       /\ planQuery' = q
       /\ LET treeData == TreeOf(convertNetworkXToTree(plan))
          IN /\ qepTreeData' = treeData
             /\ modifiedTreeData' = JSONClone(treeData)
  /\ notification' = [message |-> "Query plan fetched successfully!", show |-> FALSE]
  /\ signalled' = "none"
  /\ sent' = NoRequest
  /\ UNCHANGED <<selectedDatabase, query, pageModifiedSQL, selectedNode,
                 pendingChanges, noticeVars, comparisonVars, modifyInFlight, modifyCount, ingestVars,
                 selectInFlight, orderVars, loading, backendDatabase>>

\* handleQuerySubmit after the await: fetch rejected or !response.ok
handleQuerySubmit_failed ==
  /\ \E q \in planInFlight : planInFlight' = planInFlight \ {q}
  /\ notification' = [message |-> "Error fetching QEP data. Please try again later.",
                      show |-> TRUE]
  /\ signalled' = "plan_failed"
  /\ sent' = NoRequest
  /\ UNCHANGED <<selectedDatabase, qepData, query, pageModifiedSQL, treeVars,
                 selectedNode, pendingChanges, noticeVars, comparisonVars,
                 modifyInFlight, modifyCount, otherVars>>

\* ================================================ components/QEPPanel.tsx
\* The trees on screen, each rendered with an onClick on every node: the
\* original QEP, and to its right the generated AQP or, while edits are
\* pending, the preview of the working tree.
RenderedTrees ==
  (IF qepTreeData # Null THEN {qepTreeData} ELSE {})
  \cup (IF generatedAQPData # Null THEN {generatedAQPData}
        ELSE IF Len(pendingChanges) > 0 /\ modifiedTreeData # Null
             THEN {modifiedTreeData} ELSE {})

ClickableNodes == UNION {NodesOf(t) : t \in RenderedTrees}

\* handleNodeClick(node); ids and types of the payloads are never falsy
Selection(node) ==
  [id |-> node.id, type |-> node.type,
   join_or_scan |-> IF node.join_or_scan = Undefined THEN "Unknown"
                    ELSE node.join_or_scan,
   newType |-> Undefined]

handleNodeClick ==
  /\ PanelMounted
  /\ \E node \in ClickableNodes : selectedNode' = Selection(node)
  /\ signalled' = "none"
  /\ sent' = NoRequest
  /\ UNCHANGED <<pageVars, treeVars, pendingChanges, noticeVars, comparisonVars,
                 netVars, otherVars>>

\* {!generatedAQPData && ( ... selectedNode && selectedNode.join_or_scan !==
\* 'Unknown' && ( <Select/> <Button onClick={confirmChange}/> ) ... )}
EditControlsRendered ==
  /\ PanelMounted
  /\ generatedAQPData = Null
  /\ selectedNode # Null
  /\ selectedNode.join_or_scan # "Unknown"

\* handleScanChange(value) / handleJoinChange(value): the Select shown is the
\* scan one for a Scan selection and the join one otherwise.
handleTypeChange ==
  /\ EditControlsRendered
  /\ \E value \in (IF selectedNode.join_or_scan = "Scan" THEN ScanChoices
                   ELSE JoinChoices) :
       selectedNode' = [selectedNode EXCEPT !.newType = value]
  /\ signalled' = "none"
  /\ sent' = NoRequest
  /\ UNCHANGED <<pageVars, treeVars, pendingChanges, noticeVars, comparisonVars,
                 netVars, otherVars>>

\* confirmChange keeping one entry per node: an earlier edit of the same
\* node is dropped when the new one is recorded
confirmChangeDedup ==
  /\ EditControlsRendered
  /\ Len(pendingChanges) < MaxPending
  /\ IF selectedNode.newType # Undefined /\ selectedNode.join_or_scan # "Unknown"
     THEN /\ modifiedTreeData' =
               updateTreeData(JSONClone(modifiedTreeData), selectedNode.id,
                              selectedNode.newType)
          /\ pendingChanges' =
               Append(SelectSeq(pendingChanges,
                                LAMBDA c : c.id # selectedNode.id),
                      [id |-> selectedNode.id, newType |-> selectedNode.newType,
                       originalType |-> selectedNode.type])
          /\ selectedNode' = Null
          /\ signalled' = "none"
          /\ sent' = NoRequest
     ELSE /\ signalled' = "none"
          /\ sent' = NoRequest
          /\ UNCHANGED <<modifiedTreeData, pendingChanges, selectedNode>>
  /\ UNCHANGED <<pageVars, qepTreeData, noticeVars, comparisonVars, netVars,
                 otherVars>>

\* confirmChange writing the new type into the tree on screen instead of
\* a clone: the original tree is updated as well
confirmChangeInPlace ==
  /\ EditControlsRendered
  /\ Len(pendingChanges) < MaxPending
  /\ IF selectedNode.newType # Undefined /\ selectedNode.join_or_scan # "Unknown"
     THEN /\ modifiedTreeData' =
               updateTreeData(modifiedTreeData, selectedNode.id, selectedNode.newType)
          /\ qepTreeData' =
               updateTreeData(qepTreeData, selectedNode.id, selectedNode.newType)
          /\ pendingChanges' =
               Append(pendingChanges,
                      [id |-> selectedNode.id, newType |-> selectedNode.newType,
                       originalType |-> selectedNode.type])
          /\ selectedNode' = Null
          /\ signalled' = "none"
          /\ sent' = NoRequest
     ELSE /\ signalled' = "none"
          /\ sent' = NoRequest
          /\ UNCHANGED <<treeVars, pendingChanges, selectedNode>>
  /\ UNCHANGED <<pageVars, noticeVars, comparisonVars, netVars, otherVars>>

\* confirmChange()
confirmChange ==
  /\ EditControlsRendered
  /\ Len(pendingChanges) < MaxPending
  /\ IF selectedNode.newType # Undefined /\ selectedNode.join_or_scan # "Unknown"
     THEN /\ LET updatedTreeData ==
                   updateTreeData(JSONClone(modifiedTreeData), selectedNode.id,
                                  selectedNode.newType)
             IN modifiedTreeData' = updatedTreeData
          /\ pendingChanges' =
               Append(pendingChanges,
                      [id |-> selectedNode.id, newType |-> selectedNode.newType,
                       originalType |-> selectedNode.type])
          /\ selectedNode' = Null
          /\ signalled' = "none"
          /\ sent' = NoRequest
     ELSE /\ signalled' = "none"
          /\ sent' = NoRequest
          /\ UNCHANGED <<modifiedTreeData, pendingChanges, selectedNode>>
  /\ UNCHANGED <<pageVars, qepTreeData, noticeVars, comparisonVars, netVars,
                 otherVars>>

\* String.prototype.toUpperCase on the operator types of the payloads
ToUpperCase(s) ==
  CASE s = "Seq Scan" -> "SEQ SCAN"
    [] s = "Index Scan" -> "INDEX SCAN"
    [] s = "Index Only Scan" -> "INDEX ONLY SCAN"
    [] s = "Bitmap Heap Scan" -> "BITMAP HEAP SCAN"
    [] s = "Tid Scan" -> "TID SCAN"
    [] s = "Hash Join" -> "HASH JOIN"
    [] s = "Merge Join" -> "MERGE JOIN"
    [] s = "Nested Loop" -> "NESTED LOOP"
    [] s = "Sort" -> "SORT"
    [] OTHER -> s

\* Modifications built newest edit first
ModificationsNewestFirst ==
  [i \in 1..Len(pendingChanges) |->
     LET change == pendingChanges[Len(pendingChanges) + 1 - i]
         node == findNodeById(modifiedTreeData, change.id)
     IN [node_type |-> IF node = Null THEN "N/A" ELSE ToUpperCase(node.type),
         original_type |-> change.originalType,
         new_type |-> change.newType,
         tables |-> RequestTables(NoTable),
         node_id |-> change.id]]

\* The `modifications` of the request body, one per pending change. The
\* node is looked up in the working tree; no node of the plans carries a
\* `table`.
Modifications ==
  [i \in 1..Len(pendingChanges) |->
     LET node == findNodeById(modifiedTreeData, pendingChanges[i].id)
     IN [node_type |-> IF node = Null THEN "N/A" ELSE ToUpperCase(node.type),
         original_type |-> pendingChanges[i].originalType,
         new_type |-> pendingChanges[i].newType,
         tables |-> RequestTables(NoTable),
         node_id |-> pendingChanges[i].id]]

\* requestBody, the body of POST /api/query/modify. The client does not
\* read it again: a pending request is told from the others by its number,
\* and sentCount notes how many modifications its body carried.
RequestBody == [query |-> query, modifications |-> Modifications]

\* {!generatedAQPData && ( ... <Button onClick={generateAQP}/> )}
GenerateButtonRendered == PanelMounted /\ generatedAQPData = Null
\* disabled={pendingChanges.length === 0}
GenerateButtonDisabled == Len(pendingChanges) = 0

\* generateAQP without its check for an empty pendingChanges
generateAQPUnchecked ==
  /\ GenerateButtonRendered
  /\ modifyCount < MaxModifyRequests
  /\ modifyCount' = modifyCount + 1
  /\ modifyInFlight' = modifyInFlight \cup
       {[n |-> modifyCount + 1, sentCount |-> Len(pendingChanges)]}
  /\ signalled' = "none"
  /\ sent' = [url |-> "/api/query/modify", body |-> RequestBody]
  /\ UNCHANGED <<pageVars, treeVars, selectedNode, pendingChanges, noticeVars,
                 comparisonVars, planInFlight, otherVars>>

\* generateAQP(), up to the fetch. The handler checks for an empty
\* pendingChanges itself and is taken here as callable whenever its button
\* is rendered, disabled or not; the request sent carries RequestBody.
generateAQP ==
  /\ GenerateButtonRendered
  /\ IF Len(pendingChanges) = 0
     THEN /\ showErrorNotification' = TRUE
          /\ signalled' = "no_changes"
          /\ sent' = NoRequest
          /\ UNCHANGED <<modifyInFlight, modifyCount>>
     ELSE /\ modifyCount < MaxModifyRequests
          /\ modifyCount' = modifyCount + 1
          /\ modifyInFlight' = modifyInFlight \cup
               {[n |-> modifyCount + 1, sentCount |-> Len(pendingChanges)]}
          /\ signalled' = "none"
          /\ sent' = [url |-> "/api/query/modify", body |-> RequestBody]
          /\ UNCHANGED showErrorNotification
  /\ UNCHANGED <<pageVars, treeVars, selectedNode, pendingChanges,
                 showSuccessNotification, comparisonVars,
                 planInFlight, otherVars>>

\* generateAQP_ok without setApiHints(hints)
generateAQP_okKeepsHints ==
  /\ \E request \in modifyInFlight :
       LET responseData == ModifyResponse(request.n)
           aqpTreeData == TreeOf(convertAQPToTree(responseData.updated_networkx_object))
       IN /\ modifyInFlight' = modifyInFlight \ {request}
          /\ modifiedSQL' = responseData.modified_sql_query
          /\ totalCostOriginalQEP' = responseData.cost_comparison.original_cost
          /\ totalCostAQP' = responseData.cost_comparison.modified_cost
          /\ pageModifiedSQL' = responseData.modified_sql_query
          /\ generatedAQPData' = aqpTreeData
  /\ pendingChanges' = <<>>
  /\ showSuccessNotification' = TRUE
  /\ signalled' = "none"
  /\ sent' = NoRequest
  /\ UNCHANGED <<selectedDatabase, qepData, query, notification, treeVars,
                 selectedNode, showErrorNotification, apiHints, planInFlight,
                 modifyCount, otherVars>>

\* generateAQP after the await: response.ok and the body carries
\* updated_networkx_object. applyWhatIfChanges is the page's setModifiedSQL.
generateAQP_ok ==
  /\ \E request \in modifyInFlight :
       LET responseData == ModifyResponse(request.n)
           aqpTreeData == TreeOf(convertAQPToTree(responseData.updated_networkx_object))
       IN /\ modifyInFlight' = modifyInFlight \ {request}
          /\ modifiedSQL' = responseData.modified_sql_query
          /\ totalCostOriginalQEP' = responseData.cost_comparison.original_cost
          /\ totalCostAQP' = responseData.cost_comparison.modified_cost
          /\ apiHints' = responseData.hints
          /\ pageModifiedSQL' = responseData.modified_sql_query
          /\ generatedAQPData' = aqpTreeData
  /\ pendingChanges' = <<>>
  /\ showSuccessNotification' = TRUE
  /\ signalled' = "none"
  /\ sent' = NoRequest
  /\ UNCHANGED <<selectedDatabase, qepData, query, notification, treeVars,
                 selectedNode, showErrorNotification, planInFlight,
                 modifyCount, otherVars>>

\* generateAQP_malformed with the check for updated_networkx_object placed
\* after the state updates: costs set and pending changes cleared first
generateAQP_malformedLate ==
  /\ \E request \in modifyInFlight :
       /\ modifyInFlight' = modifyInFlight \ {request}
       /\ totalCostOriginalQEP' = ModifyResponse(request.n).cost_comparison.original_cost
       /\ totalCostAQP' = ModifyResponse(request.n).cost_comparison.modified_cost
  /\ pendingChanges' = <<>>
  /\ showErrorNotification' = TRUE
  /\ signalled' = "malformed_response"
  /\ sent' = NoRequest
  /\ UNCHANGED <<pageVars, treeVars, selectedNode, showSuccessNotification,
                 modifiedSQL, generatedAQPData, apiHints, planInFlight,
                 modifyCount, otherVars>>

\* generateAQP after the await: response.ok, but the body lacks
\* updated_networkx_object. setNotification is not defined in this component:
\* the call throws after setShowErrorNotification(true), the catch block sets
\* the flag again and throws the same way, and the promise is rejected.
generateAQP_malformed ==
  /\ \E request \in modifyInFlight : modifyInFlight' = modifyInFlight \ {request}
  /\ showErrorNotification' = TRUE
  /\ signalled' = "malformed_response"
  /\ sent' = NoRequest
  /\ UNCHANGED <<pageVars, treeVars, selectedNode, pendingChanges,
                 showSuccessNotification, comparisonVars,
                 planInFlight, modifyCount, otherVars>>

\* generateAQP_failed with a catch block that also drops the pending changes
generateAQP_failedClears ==
  /\ \E request \in modifyInFlight : modifyInFlight' = modifyInFlight \ {request}
  /\ pendingChanges' = <<>>
  /\ showErrorNotification' = TRUE
  /\ signalled' = "modify_failed"
  /\ sent' = NoRequest
  /\ UNCHANGED <<pageVars, treeVars, selectedNode, showSuccessNotification,
                 comparisonVars, planInFlight, modifyCount, otherVars>>

\* generateAQP after the await: fetch rejected, or !response.ok and the
\* Error thrown for it; both end in the catch block.
generateAQP_failed ==
  /\ \E request \in modifyInFlight : modifyInFlight' = modifyInFlight \ {request}
  /\ showErrorNotification' = TRUE
  /\ signalled' = "modify_failed"
  /\ sent' = NoRequest
  /\ UNCHANGED <<pageVars, treeVars, selectedNode, pendingChanges,
                 showSuccessNotification, comparisonVars,
                 planInFlight, modifyCount, otherVars>>

\* onClose of the error Notification, and the 3 s timer generateAQP starts
\* when there is nothing to send
closeErrorNotification ==
  /\ showErrorNotification
  /\ showErrorNotification' = FALSE
  /\ signalled' = "none"
  /\ sent' = NoRequest
  /\ UNCHANGED <<pageVars, treeVars, selectedNode, pendingChanges,
                 showSuccessNotification, comparisonVars, netVars, otherVars>>

\* onClose of the success Notification
closeSuccessNotification ==
  /\ showSuccessNotification
  /\ showSuccessNotification' = FALSE
  /\ signalled' = "none"
  /\ sent' = NoRequest
  /\ UNCHANGED <<pageVars, treeVars, selectedNode, pendingChanges,
                 showErrorNotification, comparisonVars, netVars, otherVars>>

Next ==
  \/ handleQuerySubmit
  \/ handleQuerySubmit_ok
  \/ handleQuerySubmit_failed
  \/ handleNodeClick
  \/ handleTypeChange
  \/ confirmChange
  \/ generateAQP
  \/ generateAQP_ok
  \/ generateAQP_malformed
  \/ generateAQP_failed
  \/ closeErrorNotification
  \/ closeSuccessNotification

Spec == Init /\ [][Next]_vars

\* ===================================================== graph ingestion
\* The payloads the converters are applied to: up to MaxNodes records with
\* distinct ids in any array order, any of them flagged as root, and up to
\* MaxEdges edges between any two ids, present among the nodes or not.
NodeLists ==
  UNION {{[i \in DOMAIN ids |-> NodeRecord(ids[i], i \in roots, snake)] :
            roots \in SUBSET (DOMAIN ids), snake \in BOOLEAN} :
         ids \in {s \in SeqsUpTo(Ids, MaxNodes) : Len(s) > 0 /\ IsInjective(s)}}

EdgeLists ==
  SeqsUpTo({[source |-> a, target |-> b] : a, b \in Ids}, MaxEdges)

GraphInputs == {[nodes |-> ns, edges |-> es] : ns \in NodeLists, es \in EdgeLists}

InitIngest ==
  /\ PageInit
  /\ PanelInit
  /\ NetInit
  /\ signalled = "none"
  /\ sent = NoRequest
  /\ graph \in GraphInputs
  /\ NoResults
  /\ OrderIdle

\* The converters applied to the payload
ingest ==
  /\ networkXResult = Null
  /\ networkXResult' = convertNetworkXToTree(graph)
  /\ aqpResult' = convertAQPToTree(graph)
  /\ typesResult' = convertAQPToTreeTypes(graph)
  /\ legacyResult' = convertNetworkXToTreeLegacy(graph)
  /\ UNCHANGED <<pageVars, treeVars, selectedNode, pendingChanges, noticeVars,
                 comparisonVars, netVars, signalled, sent, graph,
                 wrappedResult, selectInFlight, orderVars, planQuery, loading, backendDatabase>>

NextIngest == ingest

SpecIngest == InitIngest /\ [][NextIngest]_vars

Ingested == networkXResult # Null

\* ---- properties of a payload
NodeIds(g) == {g.nodes[i].id : i \in DOMAIN g.nodes}

RootFlagged(g) == {i \in DOMAIN g.nodes : g.nodes[i].isRoot}

\* The input constraint of ingestion: nodes is non-empty and the edges
\* reference only ids present in nodes.
ValidInput(g) ==
  /\ Len(g.nodes) > 0
  /\ \A i \in DOMAIN g.edges :
       g.edges[i].source \in NodeIds(g) /\ g.edges[i].target \in NodeIds(g)

InEdges(g, n) == {i \in DOMAIN g.edges : g.edges[i].target = n}

\* Nodes the edges lead to from a set of nodes
RECURSIVE EdgeReach(_, _, _)
EdgeReach(g, frontier, seen) ==
  IF frontier = {} THEN seen
  ELSE LET next == {g.edges[i].target :
                      i \in {j \in DOMAIN g.edges : g.edges[j].source \in frontier}}
       IN EdgeReach(g, next \ (seen \cup frontier), seen \cup frontier)

\* The edges themselves describe a tree rooted at node r: r has no incoming
\* edge, every other node exactly one, and every node is reached from r.
EdgesFormTree(g, r) ==
  /\ InEdges(g, r) = {}
  /\ \A n \in NodeIds(g) \ {r} : Cardinality(InEdges(g, n)) = 1
  /\ EdgeReach(g, {r}, {}) = NodeIds(g)

\* ---- properties of a converter's result
\* How often a walk of the returned structure from node n comes across
\* target; a walk still going after fuel steps down is in a cycle and
\* counts as coming across every node again.
RECURSIVE Visits(_, _, _, _)
RECURSIVE VisitsBelow(_, _, _, _, _)
VisitsBelow(m, ch, i, target, fuel) ==
  IF i > Len(ch) THEN 0
  ELSE Visits(m, ch[i], target, fuel) + VisitsBelow(m, ch, i + 1, target, fuel)

Visits(m, n, target, fuel) ==
  IF fuel = 0 THEN 2
  ELSE (IF n = target THEN 1 ELSE 0)
       + VisitsBelow(m, m.node[n].children, 1, target, fuel - 1)

\* The result is a tree over all node records: a node was returned and a
\* walk from it comes across every node of the map exactly once.
IsTreeOverAll(result, g) ==
  /\ ~result.threw
  /\ result.root # NoId
  /\ Range(result.nodeMap.order) = NodeIds(g)
  /\ \A n \in NodeIds(g) :
       Visits(result.nodeMap, result.root, n, Len(g.nodes) + 1) = 1

\* C2 as stated: for every valid payload with exactly one root-flagged node,
\* both converters return a tree with every node reachable from the root
\* exactly once (no cycle, no node with two parents, no node dropped).
C2_ValidInputYieldsTree ==
  (Ingested /\ ValidInput(graph) /\ Cardinality(RootFlagged(graph)) = 1)
    => (IsTreeOverAll(networkXResult, graph) /\ IsTreeOverAll(aqpResult, graph))

\* C2 amended: when in addition the edges of the payload form a tree rooted
\* at the flagged node, both converters return that tree: the flagged node,
\* with every node reachable from it exactly once.
C2_TreeInputYieldsTree ==
  (/\ Ingested
   /\ ValidInput(graph)
   /\ Cardinality(RootFlagged(graph)) = 1
   /\ \A i \in RootFlagged(graph) : EdgesFormTree(graph, graph.nodes[i].id))
    => (/\ IsTreeOverAll(networkXResult, graph)
        /\ IsTreeOverAll(aqpResult, graph)
        /\ \A i \in RootFlagged(graph) :
             /\ networkXResult.root = graph.nodes[i].id
             /\ aqpResult.root = graph.nodes[i].id)

\* C2 witness: a three-node payload whose flagged root is not the first
\* record and whose edges form a tree has been ingested.
C2_Witness ==
  /\ Ingested
  /\ Len(graph.nodes) = 3
  /\ RootFlagged(graph) = {2}
  /\ EdgesFormTree(graph, graph.nodes[2].id)
  /\ IsTreeOverAll(networkXResult, graph)
  /\ IsTreeOverAll(aqpResult, graph)

\* ================================================= edit tracking claims
\* The pending changes applied to a tree, in list order
RECURSIVE ApplyChanges(_, _, _)
ApplyChanges(tree, changes, i) ==
  IF i > Len(changes) THEN tree
  ELSE ApplyChanges(updateTreeData(tree, changes[i].id, changes[i].newType),
                    changes, i + 1)

\* A fresh ingestion of the plan the page holds
FreshTree == TreeOf(convertNetworkXToTree(qepData))

\* C1: in every reachable state the working tree is the original ingested
\* tree with every entry of pendingChanges applied in list order.
C1_WorkingTreeReflectsPending ==
  modifiedTreeData = ApplyChanges(qepTreeData, pendingChanges, 1)

\* C3: a success response without updated_networkx_object signals an error
\* and changes neither the working tree nor pendingChanges nor any of the
\* cost, hint, modified-SQL and AQP-tree state.
C3_MalformedResponseChangesNothing ==
  [][signalled' = "malformed_response" =>
       /\ showErrorNotification'
       /\ UNCHANGED <<treeVars, pendingChanges, comparisonVars, pageModifiedSQL,
                      qepData>>]_vars

\* C3 witness: the malformed-response branch has run with edits pending.
C3_Witness ==
  /\ signalled = "malformed_response"
  /\ Len(pendingChanges) > 0
  /\ showErrorNotification
  /\ modifiedTreeData # qepTreeData

\* C4: a failed /api/query/modify or /api/query/plan request (rejected, or
\* answered with a non-success status) raises a notice and leaves the plan,
\* both trees, pendingChanges and the displayed comparison as they were.
C4_FailedRequestChangesNothing ==
  [][signalled' \in {"modify_failed", "plan_failed"} =>
       /\ signalled' = "modify_failed" => showErrorNotification'
       /\ signalled' = "plan_failed" => notification'.show
       /\ UNCHANGED <<qepData, treeVars, pendingChanges, comparisonVars,
                      pageModifiedSQL, selectedNode, query, selectedDatabase>>]_vars

\* C4 witness: a modify request has failed while the comparison of an
\* earlier response was on screen.
C4_Witness ==
  /\ signalled = "modify_failed"
  /\ generatedAQPData # Null
  /\ totalCostAQP # NullCost

\* C5: generateAQP with nothing pending signals the no-changes notice, sends
\* no request and leaves plan and comparison state alone.
C5_NoChangesNoRequest ==
  [][(Len(pendingChanges) = 0 /\ generateAQP) =>
       /\ signalled' = "no_changes"
       /\ showErrorNotification'
       /\ UNCHANGED <<netVars, pageVars, treeVars, pendingChanges, selectedNode,
                      comparisonVars>>]_vars

\* C5 witness: the no-changes notice is up and no request was ever sent.
C5_Witness ==
  /\ signalled = "no_changes"
  /\ showErrorNotification
  /\ modifyCount = 0
  /\ modifyInFlight = {}

\* The comparison on screen is the one of the k-th response, all of it
ComparisonFrom(k) ==
  LET responseData == ModifyResponse(k)
  IN /\ generatedAQPData = TreeOf(convertAQPToTree(responseData.updated_networkx_object))
     /\ totalCostOriginalQEP = responseData.cost_comparison.original_cost
     /\ totalCostAQP = responseData.cost_comparison.modified_cost
     /\ apiHints = responseData.hints
     /\ modifiedSQL = responseData.modified_sql_query
     /\ pageModifiedSQL = responseData.modified_sql_query

ComparisonUnset ==
  /\ generatedAQPData = Null
  /\ totalCostOriginalQEP = NullCost
  /\ totalCostAQP = NullCost
  /\ apiHints = {}
  /\ modifiedSQL = EmptySQL
  /\ pageModifiedSQL = EmptySQL

C7_FlushRestoresWorkingTree ==
  [][generateAQP_ok => (pendingChanges' = <<>> /\ modifiedTreeData' = FreshTree')]_vars

\* C8: in every reachable state the original tree is the ingestion of the
\* plan the page holds: no edit reaches it.
C8_OriginalTreeUntouched == qepTreeData = FreshTree

\* C8 witness: an edit has been confirmed and shows in the working tree.
C8_Witness ==
  /\ Len(pendingChanges) > 0
  /\ modifiedTreeData # qepTreeData
  /\ modifiedTreeData = ApplyChanges(qepTreeData, pendingChanges, 1)

\* Two trees that differ at most in the type (and the label written with
\* it) of the nodes with the given id
RECURSIVE SameExceptTypeOf(_, _, _)
SameExceptTypeOf(a, b, id) ==
  /\ a.id = b.id
  /\ a.join_or_scan = b.join_or_scan
  /\ a.isRoot = b.isRoot
  /\ a.position = b.position
  /\ a.cost = b.cost
  /\ a.id # id => (a.type = b.type /\ a.name = b.name)
  /\ Len(a.children) = Len(b.children)
  /\ \A i \in 1..Len(a.children) : SameExceptTypeOf(a.children[i], b.children[i], id)

\* C9: confirmChange on a selected Scan or Join node with a new type chosen
\* yields a working tree that differs only in that node's type, which is now
\* the new type, appends exactly one entry {id, type, new type} to
\* pendingChanges and clears the selection.
C9_ConfirmChangeEffect ==
  [][(/\ EditControlsRendered
      /\ selectedNode.newType # Undefined
      /\ confirmChange) =>
       /\ SameExceptTypeOf(modifiedTreeData, modifiedTreeData', selectedNode.id)
       /\ findNodeById(modifiedTreeData', selectedNode.id) # Null
       /\ findNodeById(modifiedTreeData', selectedNode.id).type = selectedNode.newType
       /\ pendingChanges' =
            Append(pendingChanges,
                   [id |-> selectedNode.id, newType |-> selectedNode.newType,
                    originalType |-> selectedNode.type])
       /\ selectedNode' = Null]_vars

\* C10: a click on a node whose role is Unknown leaves selectedNode as it was.
C10_UnknownClickKeepsSelection ==
  [][(\E node \in ClickableNodes :
        /\ Selection(node).join_or_scan = "Unknown"
        /\ selectedNode' = Selection(node)
        /\ handleNodeClick) => selectedNode' = selectedNode]_vars

\* ============================================== reconciliation requests
\* C11: the request generateAQP sends carries one modification per pending
\* change, in the order of pendingChanges, each with the change's node id,
\* original type and new type, and the query text the panel holds.
C11_ModificationsMirrorPending ==
  [][sent'.url = "/api/query/modify" =>
       /\ sent'.body.query = query
       /\ Len(sent'.body.modifications) = Len(pendingChanges)
       /\ \A i \in 1..Len(pendingChanges) :
            /\ sent'.body.modifications[i].node_id = pendingChanges[i].id
            /\ sent'.body.modifications[i].original_type = pendingChanges[i].originalType
            /\ sent'.body.modifications[i].new_type = pendingChanges[i].newType]_vars

\* C11 witness: a request with two modifications for two different nodes
\* has just been sent.
C11_Witness ==
  /\ sent.url = "/api/query/modify"
  /\ Len(sent.body.modifications) = 2
  /\ sent.body.modifications[1].node_id # sent.body.modifications[2].node_id
  /\ Len(pendingChanges) = 2


\* ------------------------------------------------- table text payloads
MaxTableLen == 36

\* Table texts of 1..MaxTableLen characters
TableText(i, j) == Str([k \in 1..(i + j) |-> IF k <= i THEN "a" ELSE "b"])

TableTexts == UNION {{TableText(i, n - i) : i \in 0..n} : n \in 1..MaxTableLen}

\* A join over one scan, the scan with or without a table text
TablePayloads ==
  {[nodes |-> << [id |-> 1, type |-> "Hash Join", node_type |-> "JOIN",
                  cost |-> 200, table |-> NoTable],
                 [id |-> 2, type |-> "Seq Scan", node_type |-> "SCAN",
                  cost |-> 100, table |-> t] >>,
    edges |-> << [source |-> 1, target |-> 2] >>] : t \in TableTexts \cup {NoTable}}

InitTables ==
  /\ PageInit
  /\ PanelInit
  /\ NetInit
  /\ signalled = "none"
  /\ sent = NoRequest
  /\ graph \in TablePayloads
  /\ NoResults
  /\ OrderIdle

\* The wrapping converter applied to the payload
ingestTables ==
  /\ wrappedResult = Null
  /\ wrappedResult' = convertNetworkXToTreeWrapped(graph)
  /\ UNCHANGED <<pageVars, treeVars, selectedNode, pendingChanges, noticeVars,
                 comparisonVars, netVars, signalled, sent, graph,
                 networkXResult, aqpResult, typesResult, legacyResult,
                 selectInFlight, orderVars, planQuery, loading, backendDatabase>>

NextTables == ingestTables

SpecTables == InitTables /\ [][NextTables]_vars

\* C12: for every node the backend supplied a table text for, the tables
\* value a modification request carries for that node is that text,
\* whatever its length.
C12_TablesSentAsSupplied ==
  wrappedResult # Null =>
    \A i \in DOMAIN graph.nodes :
      graph.nodes[i].table # NoTable =>
        RequestTables(findNodeById(TreeOf(wrappedResult), graph.nodes[i].id).table)
          = Arr(<<graph.nodes[i].table>>)


\* ================================================ ingestion: the root
\* C13: for every payload with at least one node record each converter
\* returns a node, flagged root or not.
C13_IngestionReturnsNode ==
  (Ingested /\ Len(graph.nodes) > 0) =>
    /\ ~aqpResult.threw /\ aqpResult.root # NoId
    /\ ~typesResult.threw /\ typesResult.root # NoId
    /\ ~legacyResult.threw /\ legacyResult.root # NoId



C16_OneModifyInFlight == Cardinality(modifyInFlight) <= 1

\* ------------------------------------------- the page from its first render
\* HomePage as first rendered: no database selected, no plan, the panel not
\* mounted
InitPage ==
  /\ selectedDatabase = NoDatabase
  /\ qepData = Null
  /\ query = <<>>
  /\ planQuery = <<>>
  /\ pageModifiedSQL = EmptySQL
  /\ notification = [message |-> "", show |-> FALSE]
  /\ qepTreeData = Null
  /\ modifiedTreeData = Null
  /\ selectedNode = Null
  /\ pendingChanges = <<>>
  /\ showErrorNotification = FALSE
  /\ showSuccessNotification = FALSE
  /\ modifiedSQL = EmptySQL
  /\ totalCostOriginalQEP = NullCost
  /\ totalCostAQP = NullCost
  /\ generatedAQPData = Null
  /\ apiHints = {}
  /\ NetInit
  /\ signalled = "none"
  /\ sent = NoRequest
  /\ graph = NoGraph
  /\ NoResults
  /\ OrderIdle

\* handleDatabaseSelect(value), up to the fetch; the Select is clearable, so
\* value may be null
handleDatabaseSelect ==
  /\ \E value \in Databases \cup {NoDatabase} :
       IF value = NoDatabase
       THEN /\ notification' = [message |-> "Please select a database.", show |-> TRUE]
            /\ signalled' = "no_value"
            /\ sent' = NoRequest
            /\ UNCHANGED selectInFlight
       ELSE /\ selectInFlight' = selectInFlight \cup {value}
            /\ signalled' = "none"
            /\ sent' = [url |-> "/api/database/select", body |-> [database |-> value]]
            /\ UNCHANGED notification
  /\ UNCHANGED <<selectedDatabase, qepData, query, pageModifiedSQL, treeVars,
                 selectedNode, pendingChanges, noticeVars, comparisonVars, netVars,
                 ingestVars, orderVars, planQuery, loading, backendDatabase>>

\* handleDatabaseSelect after the await: response.ok. With no plan yet the
\* panel stays unmounted.
handleDatabaseSelect_ok ==
  /\ \E value \in selectInFlight :
       /\ selectInFlight' = selectInFlight \ {value}
       /\ selectedDatabase' = value
       /\ backendDatabase' = value
  /\ notification' = [message |-> "Database selected successfully!", show |-> TRUE]
  /\ signalled' = "none"
  /\ sent' = NoRequest
  /\ UNCHANGED <<qepData, query, pageModifiedSQL, treeVars, selectedNode,
                 pendingChanges, noticeVars, comparisonVars, netVars, ingestVars,
                 orderVars, planQuery, loading>>

\* handleDatabaseSelect after the await: fetch rejected or !response.ok
handleDatabaseSelect_failed ==
  /\ \E value \in selectInFlight : selectInFlight' = selectInFlight \ {value}
  /\ notification' = [message |-> "Error selecting database. Please try again later.",
                      show |-> TRUE]
  /\ signalled' = "select_failed"
  /\ sent' = NoRequest
  /\ UNCHANGED <<selectedDatabase, qepData, query, pageModifiedSQL, treeVars,
                 selectedNode, pendingChanges, noticeVars, comparisonVars, netVars,
                 ingestVars, orderVars, planQuery, loading, backendDatabase>>

\* onClose={() => setNotification((prev) => ({ ...prev, show: false }))} of
\* the Notification rendered while notification.show
closeNotification ==
  /\ notification.show
  /\ notification' = [notification EXCEPT !.show = FALSE]
  /\ signalled' = "none"
  /\ sent' = NoRequest
  /\ UNCHANGED <<selectedDatabase, qepData, query, pageModifiedSQL, treeVars,
                 selectedNode, pendingChanges, noticeVars, comparisonVars, netVars,
                 otherVars>>

NextPage ==
  \/ handleDatabaseSelect
  \/ handleDatabaseSelect_ok
  \/ handleDatabaseSelect_failed
  \/ handleQuerySubmit
  \/ handleQuerySubmit_ok
  \/ handleQuerySubmit_failed
  \/ closeNotification

SpecPage == InitPage /\ [][NextPage]_vars

\* C17: a submission made with no database selected, or with a query that
\* is blank after trimming, hands no request to fetch, leaves the pending
\* plan requests and qepData as they were, and shows the notice of the
\* failed test, the database being tested before the query.
C17_NoPlanRequestWithoutDatabaseOrQuery ==
  [][(handleQuerySubmit /\ (selectedDatabase = NoDatabase \/ Trim(query') = <<>>)) =>
       /\ sent' = NoRequest
       /\ planInFlight' = planInFlight
       /\ qepData' = qepData
       /\ notification'.show
       /\ notification'.message =
            IF selectedDatabase = NoDatabase
            THEN "Please select a database before submitting the query."
            ELSE "Please enter a query before submitting."]_vars

\* A blank query was submitted with no database selected: the notice shown
\* is the one about the database, and it can be closed.
C17_Witness ==
  /\ signalled = "no_database"
  /\ selectedDatabase = NoDatabase
  /\ query # <<>> /\ Trim(query) = <<>>
  /\ notification = [message |-> "Please select a database before submitting the query.",
                     show |-> TRUE]
  /\ sent = NoRequest
  /\ ENABLED closeNotification

\* ------------------------------------------------------ order-change mode
\* Plans shown in order-change mode, as node id -> [role, parent, marker]:
\* parent 0 for the root, marker for a synthetic sub-query marker node.
\*        1 (Unknown)
\*        2 (Join)
\*      3       4
\*    5   6
OrderPlans ==
  {<< [role |-> "Unknown", parent |-> 0, marker |-> FALSE],
      [role |-> "Join", parent |-> 1, marker |-> FALSE],
      [role |-> r3, parent |-> 2, marker |-> FALSE],
      [role |-> r4, parent |-> 2, marker |-> m4],
      [role |-> "Scan", parent |-> 3, marker |-> FALSE],
      [role |-> r6, parent |-> 3, marker |-> FALSE] >> :
     r3 \in {"Join", "Unknown"}, r4 \in {"Scan", "Join"}, m4 \in BOOLEAN,
     r6 \in {"Scan", "Unknown"}}

OrderNodeIds == DOMAIN orderPlan

\* The siblings of a node: the other children of its parent that are not
\* sub-query marker nodes
Siblings(nodeId) ==
  {n \in OrderNodeIds :
     /\ n # nodeId
     /\ orderPlan[nodeId].parent # 0
     /\ orderPlan[n].parent = orderPlan[nodeId].parent
     /\ ~orderPlan[n].marker}

\* Swap eligibility with every node but the role-Unknown ones enabled
SwapEnabledAll(first, nodeId) == orderPlan[nodeId].role # "Unknown"

\* Swap eligibility of a node once `first` is selected
SwapEnabled(first, nodeId) ==
  IF orderPlan[first].role = "Join"
  THEN orderPlan[nodeId].role = "Join" \/ nodeId \in Siblings(first)
  ELSE nodeId \in Siblings(first)

\* selectNode(nodeId) in order-change mode
selectNode(nodeId) ==
  /\ orderPlan # NoOrderPlan
  /\ selectedNodes' =
       IF orderPlan[nodeId].role = "Unknown" THEN selectedNodes
       ELSE IF \E i \in DOMAIN selectedNodes : selectedNodes[i] = nodeId
       THEN SelectSeq(selectedNodes, LAMBDA n : n # nodeId)
       ELSE IF Len(selectedNodes) >= 2 THEN selectedNodes
       ELSE IF Len(selectedNodes) = 1 /\ ~SwapEnabled(selectedNodes[1], nodeId)
       THEN selectedNodes
       ELSE Append(selectedNodes, nodeId)
  /\ UNCHANGED <<pageVars, treeVars, selectedNode, pendingChanges, noticeVars,
                 comparisonVars, netVars, signalled, sent, ingestVars,
                 selectInFlight, orderPlan, planQuery, loading, backendDatabase>>

InitOrder ==
  /\ PageInit
  /\ PanelInit
  /\ NetInit
  /\ signalled = "none"
  /\ sent = NoRequest
  /\ graph = NoGraph
  /\ NoResults
  /\ orderPlan \in OrderPlans
  /\ selectedNodes = <<>>

NextOrder == \E nodeId \in OrderNodeIds : selectNode(nodeId)

SpecOrder == InitOrder /\ [][NextOrder]_vars

\* C18: while the first selected node is a Join node, clicking a node that
\* is neither a Join node nor a sibling of that first selection leaves the
\* selection as it was.
C18_NonSiblingNonJoinNotSelectable ==
  [][\A nodeId \in OrderNodeIds :
       (/\ Len(selectedNodes) >= 1
        /\ orderPlan[selectedNodes[1]].role = "Join"
        /\ orderPlan[nodeId].role # "Join"
        /\ nodeId \notin Siblings(selectedNodes[1])
        /\ selectNode(nodeId)) => selectedNodes' = selectedNodes]_vars

\* A Join node is selected alone while the plan holds a Scan node that is
\* not its sibling, and a sub-query marker Scan node beside it.
C18_Witness ==
  /\ orderPlan # NoOrderPlan
  /\ Len(selectedNodes) = 1
  /\ orderPlan[selectedNodes[1]].role = "Join"
  /\ \E nodeId \in OrderNodeIds :
       /\ orderPlan[nodeId].role = "Scan"
       /\ ~orderPlan[nodeId].marker
       /\ nodeId \notin Siblings(selectedNodes[1])
  /\ \E nodeId \in OrderNodeIds :
       /\ orderPlan[nodeId].role = "Scan"
       /\ orderPlan[nodeId].marker
       /\ orderPlan[nodeId].parent = orderPlan[selectedNodes[1]].parent

\* ================================================ root selection claims
\* C19: when exactly one node record of the payload is flagged isRoot, each
\* converter returns that node, wherever it stands in the nodes array and
\* whatever the edges are.
C19_FlaggedRootReturned ==
  (Ingested /\ Cardinality(RootFlagged(graph)) = 1) =>
    \A i \in RootFlagged(graph) :
      /\ ~networkXResult.threw /\ networkXResult.root = graph.nodes[i].id
      /\ ~aqpResult.threw /\ aqpResult.root = graph.nodes[i].id
      /\ ~typesResult.threw /\ typesResult.root = graph.nodes[i].id

\* Records flagged as root under either key
AnyRootFlagged(g) ==
  {i \in DOMAIN g.nodes : g.nodes[i].isRoot \/ g.nodes[i].is_root}

\* Nodes of the payload no edge leads to
NoIncoming(g) == {n \in NodeIds(g) : InEdges(g, n) = {}}

\* C20: when no node record carries a root flag and exactly one node has no
\* incoming edge, the converters return that node, whatever the order of
\* the nodes array.
C20_RootInferredFromEdges ==
  (/\ Ingested
   /\ ValidInput(graph)
   /\ AnyRootFlagged(graph) = {}
   /\ Cardinality(NoIncoming(graph)) = 1) =>
    \A n \in NoIncoming(graph) :
      /\ ~networkXResult.threw /\ networkXResult.root = n
      /\ ~aqpResult.threw /\ aqpResult.root = n

\* ================================================ children order claims
\* The targets of the edges that leave node n and end at a node of the
\* payload, in edge-array order
ChildrenByEdges(g, n) ==
  LET es == SelectSeq(g.edges,
                      LAMBDA e : e.source = n /\ e.source \in NodeIds(g)
                                 /\ e.target \in NodeIds(g))
  IN [i \in DOMAIN es |-> es[i].target]

\* C21: for every node the children the converters produce are the targets
\* of the edges leaving that node, in edge-array order, an edge with an end
\* that is no node of the payload being skipped. No record of these
\* payloads carries a position tag, so the sort leaves the order alone.
C21_ChildrenFollowEdgeOrder ==
  Ingested =>
    \A n \in NodeIds(graph) :
      /\ aqpResult.nodeMap.node[n].children = ChildrenByEdges(graph, n)
      /\ ~networkXResult.threw =>
           networkXResult.nodeMap.node[n].children = ChildrenByEdges(graph, n)

\* A node with two children whose edge order is not their id order nor
\* their order in the nodes array has been ingested by both converters.
C21_Witness ==
  /\ Ingested
  /\ ~networkXResult.threw
  /\ \E n \in NodeIds(graph) :
       /\ aqpResult.nodeMap.node[n].children = <<3, 2>>
       /\ networkXResult.nodeMap.node[n].children = <<3, 2>>
  /\ graph.nodes[1].id = 2

\* Payloads with position tags: a root (flagged or not) and MaxChildren
\* further records, each tagged l, c, r, s or not at all; every record is a
\* child of the root, but for the last, which may hang below record 2; the
\* edges come in any order.
MaxChildren == 3

Positions == {"l", "c", "r", "s", Undefined}

PositionRecord(i, root, p) == [NodeRecord(i, root, FALSE) EXCEPT !.position = p]

PositionEdges(lastParent) ==
  LET E == {[source |-> IF k = 1 + MaxChildren THEN lastParent ELSE 1, target |-> k] :
              k \in 2..(1 + MaxChildren)}
  IN {s \in SeqsUpTo(E, MaxChildren) : Len(s) = MaxChildren /\ IsInjective(s)}

PositionPayloads ==
  {[nodes |-> [i \in 1..(1 + MaxChildren) |->
                 IF i = 1 THEN PositionRecord(1, flagged, Undefined)
                 ELSE PositionRecord(i, FALSE, tags[i - 1])],
    edges |-> es] :
     flagged \in BOOLEAN, tags \in [1..MaxChildren -> Positions],
     es \in UNION {PositionEdges(lp) : lp \in {1, 2}}}

InitSort ==
  /\ PageInit
  /\ PanelInit
  /\ NetInit
  /\ signalled = "none"
  /\ sent = NoRequest
  /\ graph \in PositionPayloads
  /\ NoResults
  /\ OrderIdle

SpecSort == InitSort /\ [][NextIngest]_vars

\* The position tags of the children of node n in a converter's result
ChildTags(result, n) ==
  [i \in DOMAIN result.nodeMap.node[n].children |->
     result.nodeMap.node[result.nodeMap.node[n].children[i]].position]

\* Where child c stands among the edges leaving node n
EdgeIndex(g, n, c) ==
  CHOOSE i \in DOMAIN ChildrenByEdges(g, n) : ChildrenByEdges(g, n)[i] = c

\* C22: in the tree convertNetworkXToTree returns, the children of a node
\* whose children are all tagged stand in the order l < c < r < s, equally
\* tagged ones in edge order, and the children of a node none of whose
\* children is tagged stand in edge order.
C22_ChildrenSortedByPosition ==
  (Ingested /\ ~networkXResult.threw /\ networkXResult.root # NoId) =>
    \A n \in Reach(networkXResult.nodeMap, {networkXResult.root}, {}) :
      LET ch == networkXResult.nodeMap.node[n].children
          tags == ChildTags(networkXResult, n)
      IN /\ Range(ch) = Range(ChildrenByEdges(graph, n))
         /\ Len(ch) = Len(ChildrenByEdges(graph, n))
         /\ (\A i \in DOMAIN tags : PositionKnown(tags[i])) =>
              \A i, j \in DOMAIN ch :
                i < j =>
                  \/ PositionOrder(tags[i]) < PositionOrder(tags[j])
                  \/ /\ tags[i] = tags[j]
                     /\ EdgeIndex(graph, n, ch[i]) < EdgeIndex(graph, n, ch[j])
         /\ (\A i \in DOMAIN tags : ~PositionKnown(tags[i])) =>
              ch = ChildrenByEdges(graph, n)

\* ============================================== request content claims
\* The spellings of a join_or_scan role a request may carry
RoleNames(role) ==
  CASE role = "Scan" -> {"Scan", "SCAN"}
    [] role = "Join" -> {"Join", "JOIN"}
    [] OTHER -> {}

\* C23: in every modification generateAQP sends, node_type is the
\* join_or_scan role of the edited node (Scan or Join).
C23_NodeTypeIsRole ==
  [][sent'.url = "/api/query/modify" =>
       \A i \in DOMAIN sent'.body.modifications :
         LET node == findNodeById(modifiedTreeData, sent'.body.modifications[i].node_id)
         IN node # Null =>
              sent'.body.modifications[i].node_type \in RoleNames(node.join_or_scan)]_vars

\* ============================================== overlapping requests
\* C24: when a successful response empties pendingChanges, every entry it
\* removes was among the modifications of the request that produced the
\* response. No edit is recorded once a comparison is shown, so the list
\* at the response is the list at the request with the entries confirmed
\* since: all were sent exactly when the list is no longer than the body.
C24_NoConfirmedEditLost ==
  [][\A request \in modifyInFlight :
       (/\ generateAQP_ok
        /\ modifyInFlight' = modifyInFlight \ {request})
         => Len(pendingChanges) <= request.sentCount]_vars

\* C25: the comparison of a request is never replaced by that of a request
\* issued before it: a successful response handled while the comparison of
\* the k-th request is on screen answers a request issued after the k-th,
\* so that once all responses are in the comparison shown is the one of the
\* last request answered successfully.
C25_NewestResponseShown ==
  [][\A k \in 1..modifyCount :
       (ComparisonFrom(k) /\ generateAQP_ok) =>
         \E request \in modifyInFlight \ modifyInFlight' : request.n > k]_vars

\* ================================================ pending entry claims
\* C26: every entry of pendingChanges whose node is in the original tree
\* carries as originalType the type that node has in the original tree.
C26_OriginalTypeFromOriginalTree ==
  \A i \in DOMAIN pendingChanges :
    LET node == findNodeById(qepTreeData, pendingChanges[i].id)
    IN node # Null => pendingChanges[i].originalType = node.type

\* C27: the query a modify request carries is the text whose plan response
\* is the plan on screen.
C27_RequestQueryIsPlanQuery ==
  [][sent'.url = "/api/query/modify" => sent'.body.query = planQuery]_vars

\* C28: every entry of pendingChanges refers to a node of the current
\* original tree.
C28_PendingNodesInOriginalTree ==
  \A i \in DOMAIN pendingChanges :
    findNodeById(qepTreeData, pendingChanges[i].id) # Null

\* --------------------------------- the page with a loading modal (part_000)
\* handleDatabaseSelect(value) of the HomePage with the modal, up to the
\* fetch. The open modal covers the Select and the query panel; the
\* Notification is drawn above it (zIndex 1000) and stays closable.
handleDatabaseSelectModal ==
  /\ ~loading
  /\ \E value \in Databases \cup {NoDatabase} :
       IF value = NoDatabase
       THEN /\ notification' = [message |-> "Please select a database.", show |-> TRUE]
            /\ signalled' = "no_value"
            /\ sent' = NoRequest
            /\ UNCHANGED <<selectInFlight, loading>>
       ELSE /\ loading' = TRUE
            /\ selectInFlight' = selectInFlight \cup {value}
            /\ signalled' = "none"
            /\ sent' = [url |-> "/api/database/select", body |-> [database |-> value]]
            /\ UNCHANGED notification
  /\ UNCHANGED <<selectedDatabase, qepData, query, pageModifiedSQL, treeVars,
                 selectedNode, pendingChanges, noticeVars, comparisonVars, netVars,
                 ingestVars, orderVars, planQuery, backendDatabase>>

\* after the await, response.ok: setSelectedDatabase(value); setLoading(false)
handleDatabaseSelectModal_ok ==
  /\ \E value \in selectInFlight :
       /\ selectInFlight' = selectInFlight \ {value}
       /\ selectedDatabase' = value
       /\ backendDatabase' = value
  /\ notification' = [message |-> "Database selected successfully!", show |-> TRUE]
  /\ loading' = FALSE
  /\ signalled' = "none"
  /\ sent' = NoRequest
  /\ UNCHANGED <<qepData, query, pageModifiedSQL, treeVars, selectedNode,
                 pendingChanges, noticeVars, comparisonVars, netVars, ingestVars,
                 orderVars, planQuery>>

\* after the await, fetch rejected or !response.ok: the catch block sets the
\* notification and nothing else
handleDatabaseSelectModal_failed ==
  /\ \E value \in selectInFlight : selectInFlight' = selectInFlight \ {value}
  /\ notification' = [message |-> "Error selecting database. Please try again later.",
                      show |-> TRUE]
  /\ signalled' = "select_failed"
  /\ sent' = NoRequest
  /\ UNCHANGED <<selectedDatabase, qepData, query, pageModifiedSQL, treeVars,
                 selectedNode, pendingChanges, noticeVars, comparisonVars, netVars,
                 ingestVars, orderVars, planQuery, loading, backendDatabase>>

\* Submit Query of the page with the modal: <QueryPanel isDisabled={!!qepData}>
handleQuerySubmitModal ==
  /\ ~loading
  /\ qepData = Null
  /\ handleQuerySubmit

NextModal ==
  \/ handleDatabaseSelectModal
  \/ handleDatabaseSelectModal_ok
  \/ handleDatabaseSelectModal_failed
  \/ handleQuerySubmitModal
  \/ handleQuerySubmit_ok
  \/ handleQuerySubmit_failed
  \/ closeNotification

\* Every request is answered or fails in the end; nothing obliges the user
\* to act.
SpecModal ==
  /\ InitPage
  /\ [][NextModal]_vars
  /\ WF_vars(handleDatabaseSelectModal_ok \/ handleDatabaseSelectModal_failed)
  /\ WF_vars(handleQuerySubmit_ok \/ handleQuerySubmit_failed)

\* C29: whenever no /api/database/select request is pending, the loading
\* modal is closed or closes later: every request that has completed, with
\* success or with an error, is followed by loading = false.
C29_ModalClosesAfterSelect == [](selectInFlight = {} => <>(~loading))

\* ------------------------------ database selects in quick succession
\* The options of the Select (GET /api/database/available)
SelectOptions == {"TPC-H", "IMDB"}

\* handleDatabaseSelect(value) up to the fetch, the request kept with how
\* far the backend has got with it. Nothing stops a second change of the
\* Select while a request is pending.
selectRequest ==
  /\ \E value \in SelectOptions \cup {NoDatabase} :
       IF value = NoDatabase
       THEN /\ notification' = [message |-> "Please select a database.", show |-> TRUE]
            /\ signalled' = "no_value"
            /\ sent' = NoRequest
            /\ UNCHANGED selectInFlight
       ELSE /\ selectInFlight' =
                 selectInFlight \cup {[database |-> value, backend |-> "pending"]}
            /\ signalled' = "none"
            /\ sent' = [url |-> "/api/database/select", body |-> [database |-> value]]
            /\ UNCHANGED notification
  /\ UNCHANGED <<selectedDatabase, qepData, query, pageModifiedSQL, treeVars,
                 selectedNode, pendingChanges, noticeVars, comparisonVars, netVars,
                 ingestVars, orderVars, planQuery, loading, backendDatabase>>

\* POST /api/database/select on the backend: it handles one request that
\* reached it, in whatever order the requests arrive, and either switches
\* to the database (success message) or does not (failure message).
backendSelect ==
  /\ \E request \in selectInFlight :
       /\ request.backend = "pending"
       /\ \/ /\ backendDatabase' = request.database
             /\ selectInFlight' =
                  (selectInFlight \ {request})
                    \cup {[database |-> request.database, backend |-> "ok"]}
          \/ /\ UNCHANGED backendDatabase
             /\ selectInFlight' =
                  (selectInFlight \ {request})
                    \cup {[database |-> request.database, backend |-> "failed"]}
  /\ UNCHANGED <<selectedDatabase, qepData, query, pageModifiedSQL, notification,
                 treeVars, selectedNode, pendingChanges, noticeVars, comparisonVars,
                 netVars, ingestVars, orderVars, planQuery, loading, signalled, sent>>

\* handleDatabaseSelect after the await, response.ok: the success response
\* of a request, whichever of the pending ones it belongs to
selectResponse_ok ==
  /\ \E request \in selectInFlight :
       /\ request.backend = "ok"
       /\ selectInFlight' = selectInFlight \ {request}
       /\ selectedDatabase' = request.database
  /\ notification' = [message |-> "Database selected successfully!", show |-> TRUE]
  /\ signalled' = "none"
  /\ sent' = NoRequest
  /\ UNCHANGED <<qepData, query, pageModifiedSQL, treeVars, selectedNode,
                 pendingChanges, noticeVars, comparisonVars, netVars, ingestVars,
                 orderVars, planQuery, loading, backendDatabase>>

\* handleDatabaseSelect after the await, the catch block: the backend
\* answered with a failure, or the fetch rejected wherever the request had
\* got to
selectResponse_failed ==
  /\ \E request \in selectInFlight : selectInFlight' = selectInFlight \ {request}
  /\ notification' = [message |-> "Error selecting database. Please try again later.",
                      show |-> TRUE]
  /\ signalled' = "select_failed"
  /\ sent' = NoRequest
  /\ UNCHANGED <<selectedDatabase, qepData, query, pageModifiedSQL, treeVars,
                 selectedNode, pendingChanges, noticeVars, comparisonVars, netVars,
                 ingestVars, orderVars, planQuery, loading, backendDatabase>>

NextSelect ==
  \/ selectRequest
  \/ backendSelect
  \/ selectResponse_ok
  \/ selectResponse_failed
  \/ handleQuerySubmit
  \/ handleQuerySubmit_ok
  \/ handleQuerySubmit_failed
  \/ closeNotification

SpecSelect == InitPage /\ [][NextSelect]_vars

\* selectedDatabase moves only to the database of a success response
SelectedOnlyOnSuccess ==
  [][selectedDatabase' # selectedDatabase
       => \E request \in selectInFlight \ selectInFlight' :
            /\ request.backend = "ok"
            /\ selectedDatabase' = request.database]_vars

\* with no select request pending the page shows the backend's database
SelectedIsBackendDatabase ==
  [](selectInFlight = {} => selectedDatabase = backendDatabase)

\* C30: selectedDatabase changes only when an /api/database/select request
\* succeeds, and once no select request is in flight it equals the database
\* of the last request the backend processed successfully, whatever the
\* order in which the responses completed.
C30_SelectedDatabaseFollowsBackend ==
  /\ SelectedOnlyOnSuccess
  /\ SelectedIsBackendDatabase

====
